---- MODULE Spec2Model ----
(***************************************************************************)
(* A model of the data-structure engines of the Rust crate: UnionFind      *)
(* (rust/src/union_find.rs), FenwickTree (fenwick_tree.rs), SparseTable    *)
(* (sparse_table.rs), Treap (treap.rs) and the KMP matcher (kmp.rs).  The  *)
(* engines are independent, so each has its own variables and its own      *)
(* specification (SpecUF, SpecFT, SpecST, SpecTreap, SpecKMP); a           *)
(* specification leaves the variables of the other engines at their idle   *)
(* value.  SpecSeed is the one concurrent part: threads that create Treap  *)
(* nodes and share the process-wide seed of the priorities.                *)
(***************************************************************************)
EXTENDS Integers, Sequences, FiniteSets, TLC

VARIABLES
    \* UnionFind (union_find.rs:5-9)
    parent, size, count,
    \* UnionFind observers: the partition generated by the union pairs
    \* performed so far, and the last call with its return value (for a
    \* union also whether its arguments were in different sets before the
    \* call, and count() before the call)
    uf_sets, uf_last,
    \* FenwickTree (fenwick_tree.rs:3-5)
    tree,
    \* FenwickTree observers: the logical array, the constructor used, the
    \* number of add calls, and how many leading adds were add(0,_), add(1,_)..
    \* and the last call with its return value
    ft_a, ft_mode, ft_adds, ft_fill, ft_last,
    \* SparseTable (sparse_table.rs:6-12)
    table, log,
    \* SparseTable observers: the source array and the last query
    st_arr, st_last,
    \* Treap (treap.rs:47-49)
    root,
    \* Treap observers: the reference multiset, the number of insert calls,
    \* the number of remove calls that found an occurrence to remove, and
    \* the last call (an insert with inorder() and len() from before it)
    t_bag, t_ins, t_rem, t_last,
    \* KMP (kmp.rs): the two arguments, as byte strings, and the last call
    \* with what it returned
    kmp_text, kmp_pattern, kmp_last,
    \* Treap priority source (treap.rs:4): the low SeedBits bits of the
    \* static SPLITMIX64_SEED; per thread, where it is in Node::new and its
    \* local s
    seed, seed_pc, seed_s,
    \* Observer of the priority source: the fetch_add calls done so far, in
    \* the order they took effect, each with its thread and the value it got
    seed_got

uf_vars == <<parent, size, count, uf_sets, uf_last>>
ft_vars == <<tree, ft_a, ft_mode, ft_adds, ft_fill, ft_last>>
st_vars == <<table, log, st_arr, st_last>>
t_vars == <<root, t_bag, t_ins, t_rem, t_last>>
kmp_vars == <<kmp_text, kmp_pattern, kmp_last>>
seed_vars == <<seed, seed_pc, seed_s, seed_got>>
vars == <<uf_vars, ft_vars, st_vars, t_vars, kmp_vars, seed_vars>>

\* ------------------------------------------------------------------------
\* Bounds of the model
\* ------------------------------------------------------------------------

\* largest n given to UnionFind::new
UFMaxSize == 5

\* longest text and longest pattern given to the KMP functions
KMPMaxText == 7
KMPMaxPattern == 4

\* the bytes the texts and patterns are made of ("a" and "b")
KMPBytes == {97, 98}

\* number of threads that create Treap nodes, largest number of node
\* creations in all, and the number of low bits of the 64-bit seed the model
\* keeps (addition modulo 2^64 restricted to the low bits is addition modulo
\* 2^SeedBits; SeedMaxCreations stays below 2^SeedBits)
SeedThreads == 3
SeedMaxCreations == 6
SeedBits == 4

\* the low byte of 0x9E3779B97F4A7C15, which is both the initial value of
\* SPLITMIX64_SEED and the increment of fetch_add and of splitmix64
SeedLowByte == 21

\* number of bits of the word the index arithmetic of the model is done in
\* (usize in the source; every index of the model fits)
WordBits == 4

\* largest size of a FenwickTree
FTMaxSize == 4

\* largest number of add calls on one FenwickTree; only a slot-by-slot
\* fill add(0,_), add(1,_), ... of a new tree may go on beyond it
FTMaxAdds == 2

\* the values given to FenwickTree::from_vec and the deltas given to add
FTVals == {-1, 2}

\* largest length of the array given to SparseTable::from_slice
STMaxLen == 5

\* the elements of the arrays given to SparseTable::from_slice
STVals == {0, 1, 2}

\* the keys given to Treap::insert and Treap::remove are 1..TMaxKey
TMaxKey == 4

\* the priorities drawn for new Treap nodes are 0..TMaxPrio
TMaxPrio == 2

\* largest number of insert calls on one Treap
TMaxIns == 4

\* ------------------------------------------------------------------------
\* Values the idle engines hold under another engine's specification
\* ------------------------------------------------------------------------

NoCall == [op |-> "none"]

UFIdle ==
    /\ parent = <<>>
    /\ size = <<>>
    /\ count = 0
    /\ uf_sets = {}
    /\ uf_last = NoCall

FTIdle ==
    /\ tree = <<>>
    /\ ft_a = <<>>
    /\ ft_mode = "none"
    /\ ft_adds = 0
    /\ ft_fill = 0
    /\ ft_last = NoCall

STIdle ==
    /\ table = <<>>
    /\ log = <<>>
    /\ st_arr = <<>>
    /\ st_last = NoCall

TreapIdle ==
    /\ root = <<>>
    /\ t_bag = <<>>
    /\ t_ins = 0
    /\ t_rem = 0
    /\ t_last = NoCall

KMPIdle ==
    /\ kmp_text = <<>>
    /\ kmp_pattern = <<>>
    /\ kmp_last = NoCall

SeedIdle ==
    /\ seed = 0
    /\ seed_pc = <<>>
    /\ seed_s = <<>>
    /\ seed_got = <<>>

\* ========================================================================
\* UnionFind (rust/src/union_find.rs)
\* ========================================================================

\* Vec<usize> indexed 0..n-1 is a function on 0..n-1
UnionFind_new(n) ==
    [parent |-> [i \in 0..(n - 1) |-> i],
     size   |-> [i \in 0..(n - 1) |-> 1],
     count  |-> n]

\* Mutant of FindRoot: "if" for "while", one link is followed
FindRoot_OneStep(par, r) ==
    IF r # par[r] THEN par[r] ELSE r

\* find, first loop: walk the parent links up to the root
RECURSIVE FindRoot(_, _)
FindRoot(par, r) ==
    IF r # par[r] THEN FindRoot(par, par[r]) ELSE r

\* Mutant of the compression loop: no node is relinked
Compress_Skipped(par, p_mut, r) == par

\* find, second loop (path compression): relink every node on the path
RECURSIVE Compress(_, _, _)
Compress(par, p_mut, r) ==
    IF p_mut # r
    THEN Compress([par EXCEPT ![p_mut] = r], par[p_mut], r)
    ELSE par

\* find(&mut self, p): the returned root and the parent array it leaves
UnionFind_find(par, p) ==
    LET r == FindRoot(par, p)
    IN  [ret |-> r, parent |-> Compress(par, p, r)]

\* Mutant of union: count is not decremented on a merge
UnionFind_union_KeepsCount(par, sz, cnt, p, q) ==
    LET fp == UnionFind_find(par, p)
        fq == UnionFind_find(fp.parent, q)
        root_p == fp.ret
        root_q == fq.ret
        par2 == fq.parent
    IN  IF root_p = root_q
        THEN [ret |-> FALSE, parent |-> par2, size |-> sz, count |-> cnt]
        ELSE IF sz[root_p] < sz[root_q]
        THEN [ret    |-> TRUE,
              parent |-> [par2 EXCEPT ![root_p] = root_q],
              size   |-> [sz EXCEPT ![root_q] = sz[root_q] + sz[root_p]],
              count  |-> cnt]
        ELSE [ret    |-> TRUE,
              parent |-> [par2 EXCEPT ![root_q] = root_p],
              size   |-> [sz EXCEPT ![root_p] = sz[root_p] + sz[root_q]],
              count  |-> cnt]

\* Mutant of union: the arguments are relinked instead of their roots
UnionFind_union_LinksArgs(par, sz, cnt, p, q) ==
    LET fp == UnionFind_find(par, p)
        fq == UnionFind_find(fp.parent, q)
        root_p == fp.ret
        root_q == fq.ret
        par2 == fq.parent
    IN  IF root_p = root_q
        THEN [ret |-> FALSE, parent |-> par2, size |-> sz, count |-> cnt]
        ELSE IF sz[root_p] < sz[root_q]
        THEN [ret    |-> TRUE,
              parent |-> [par2 EXCEPT ![p] = root_q],
              size   |-> [sz EXCEPT ![root_q] = sz[root_q] + sz[root_p]],
              count  |-> cnt - 1]
        ELSE [ret    |-> TRUE,
              parent |-> [par2 EXCEPT ![q] = root_p],
              size   |-> [sz EXCEPT ![root_p] = sz[root_p] + sz[root_q]],
              count  |-> cnt - 1]

\* Mutant of union: no early return when the two roots are the same
UnionFind_union_NoSameRootCheck(par, sz, cnt, p, q) ==
    LET fp == UnionFind_find(par, p)
        fq == UnionFind_find(fp.parent, q)
        root_p == fp.ret
        root_q == fq.ret
        par2 == fq.parent
    IN  IF sz[root_p] < sz[root_q]
        THEN [ret    |-> TRUE,
              parent |-> [par2 EXCEPT ![root_p] = root_q],
              size   |-> [sz EXCEPT ![root_q] = sz[root_q] + sz[root_p]],
              count  |-> cnt - 1]
        ELSE [ret    |-> TRUE,
              parent |-> [par2 EXCEPT ![root_q] = root_p],
              size   |-> [sz EXCEPT ![root_p] = sz[root_p] + sz[root_q]],
              count  |-> cnt - 1]

\* Mutant of union: the size comparison is turned round
UnionFind_union_LargerUnderSmaller(par, sz, cnt, p, q) ==
    LET fp == UnionFind_find(par, p)
        fq == UnionFind_find(fp.parent, q)
        root_p == fp.ret
        root_q == fq.ret
        par2 == fq.parent
    IN  IF root_p = root_q
        THEN [ret |-> FALSE, parent |-> par2, size |-> sz, count |-> cnt]
        ELSE IF sz[root_p] > sz[root_q]
        THEN [ret    |-> TRUE,
              parent |-> [par2 EXCEPT ![root_p] = root_q],
              size   |-> [sz EXCEPT ![root_q] = sz[root_q] + sz[root_p]],
              count  |-> cnt - 1]
        ELSE [ret    |-> TRUE,
              parent |-> [par2 EXCEPT ![root_q] = root_p],
              size   |-> [sz EXCEPT ![root_p] = sz[root_p] + sz[root_q]],
              count  |-> cnt - 1]

\* union(&mut self, p, q): the returned flag and the fields it leaves
UnionFind_union(par, sz, cnt, p, q) ==
    LET fp == UnionFind_find(par, p)
        fq == UnionFind_find(fp.parent, q)
        root_p == fp.ret
        root_q == fq.ret
        par2 == fq.parent
    IN  IF root_p = root_q
        THEN [ret |-> FALSE, parent |-> par2, size |-> sz, count |-> cnt]
        ELSE IF sz[root_p] < sz[root_q]
        THEN [ret    |-> TRUE,
              parent |-> [par2 EXCEPT ![root_p] = root_q],
              size   |-> [sz EXCEPT ![root_q] = sz[root_q] + sz[root_p]],
              count  |-> cnt - 1]
        ELSE [ret    |-> TRUE,
              parent |-> [par2 EXCEPT ![root_q] = root_p],
              size   |-> [sz EXCEPT ![root_p] = sz[root_p] + sz[root_q]],
              count  |-> cnt - 1]

\* Mutant of connected: q's parent link is read instead of find(q)
UnionFind_connected_NoFindQ(par, p, q) ==
    LET fp == UnionFind_find(par, p)
    IN  [ret |-> (fp.ret = fp.parent[q]), parent |-> fp.parent]

\* connected(&mut self, p, q): find(p) is evaluated first, find(q) on what
\* it leaves
UnionFind_connected(par, p, q) ==
    LET fp == UnionFind_find(par, p)
        fq == UnionFind_find(fp.parent, q)
    IN  [ret |-> (fp.ret = fq.ret), parent |-> fq.parent]

\* count(&self)
UnionFind_count == count

\* the elements of the structure: the indices of parent
UFElems == DOMAIN parent

\* Observer: the partition of the elements into the classes of "linked by a
\* chain of union pairs"; a union pair (p, q) joins the classes of p and q.
SetOf(sets, p) == CHOOSE S \in sets : p \in S

Linked(sets, p, q) == \E S \in sets : p \in S /\ q \in S

JoinSets(sets, p, q) ==
    (sets \ {SetOf(sets, p), SetOf(sets, q)})
        \cup {SetOf(sets, p) \cup SetOf(sets, q)}

\* Observer: the element of the set S that is its own parent
RootIn(S) == CHOOSE r \in S : parent[r] = r

\* Observer: where k parent links lead from element e
RECURSIVE Climb(_, _, _)
Climb(par, e, k) == IF k = 0 THEN e ELSE Climb(par, par[e], k - 1)

\* Observer: the elements met on the way from p up the parent links
PathFrom(par, p) ==
    {Climb(par, p, k) : k \in 0..Cardinality(DOMAIN par)}

\* Observer: the element the parent links lead to from e
TopOf(par, e) == Climb(par, e, Cardinality(DOMAIN par))

UFInit ==
    /\ \E n \in 0..UFMaxSize :
          LET uf == UnionFind_new(n)
          IN  /\ parent = uf.parent
              /\ size = uf.size
              /\ count = uf.count
              /\ uf_sets = {{i} : i \in 0..(n - 1)}
    /\ uf_last = NoCall
    /\ FTIdle /\ STIdle /\ TreapIdle /\ KMPIdle /\ SeedIdle

\* union(p, q).  A call on two different sets also records, from before
\* the call, the root of each of the two sets and how many elements each has.
Union(p, q) ==
    LET u == UnionFind_union(parent, size, count, p, q)
    IN  /\ parent' = u.parent
        /\ size' = u.size
        /\ count' = u.count
        /\ uf_sets' = JoinSets(uf_sets, p, q)
        /\ uf_last' =
              IF Linked(uf_sets, p, q)
              THEN [op |-> "union", ret |-> u.ret, apart |-> FALSE,
                    count_before |-> UnionFind_count]
              ELSE [op |-> "union", ret |-> u.ret, apart |-> TRUE,
                    count_before |-> UnionFind_count,
                    p_root |-> RootIn(SetOf(uf_sets, p)),
                    q_root |-> RootIn(SetOf(uf_sets, q)),
                    p_elems |-> Cardinality(SetOf(uf_sets, p)),
                    q_elems |-> Cardinality(SetOf(uf_sets, q))]
        /\ UNCHANGED <<ft_vars, st_vars, t_vars, kmp_vars, seed_vars>>

\* find(p).  The call records how many parent links it changed, and count
\* and the size array from before it.
Find(p) ==
    LET f == UnionFind_find(parent, p)
    IN  /\ parent' = f.parent
        /\ uf_last' = [op |-> "find", ret |-> f.ret,
                        relinked |-> Cardinality({e \in UFElems :
                                        f.parent[e] # parent[e]}),
                        count_before |-> count,
                        size_before |-> size]
        /\ UNCHANGED <<size, count, uf_sets>>
        /\ UNCHANGED <<ft_vars, st_vars, t_vars, kmp_vars, seed_vars>>

Connected(p, q) ==
    LET c == UnionFind_connected(parent, p, q)
    IN  /\ parent' = c.parent
        /\ uf_last' = [op |-> "connected", ret |-> c.ret]
        /\ UNCHANGED <<size, count, uf_sets>>
        /\ UNCHANGED <<ft_vars, st_vars, t_vars, kmp_vars, seed_vars>>

UFNext ==
    \/ \E p, q \in UFElems : Union(p, q)
    \/ \E p \in UFElems : Find(p)
    \/ \E p, q \in UFElems : Connected(p, q)

SpecUF == UFInit /\ [][UFNext]_vars

\* ---- C1 -----------------------------------------------------------------
\* C1: every union(p, q) call returns true and lowers count() by exactly 1
\* when p and q were in different sets before the call, and returns false
\* and leaves count() unchanged when they were already in the same set.
C1_UnionReturnAndCount ==
    uf_last.op = "union" =>
        IF uf_last.apart
        THEN uf_last.ret = TRUE /\ UnionFind_count = uf_last.count_before - 1
        ELSE uf_last.ret = FALSE /\ UnionFind_count = uf_last.count_before

\* a union has just returned false after two merging unions
C1_Witness ==
    /\ Cardinality(UFElems) >= 4
    /\ uf_last.op = "union"
    /\ uf_last.ret = FALSE
    /\ count = Cardinality(UFElems) - 2

\* ---- C2 -----------------------------------------------------------------
\* C2: in every state reached by unions (and finds and connected calls),
\* connected(p, q) returns true exactly when p = q or p and q are linked by
\* a chain of the union pairs performed so far.
C2_ConnectedIffLinked ==
    \A p, q \in UFElems :
        UnionFind_connected(parent, p, q).ret
            = (p = q \/ Linked(uf_sets, p, q))

\* the shape of the documented example: a chain of three elements, a
\* separate pair, and a connected call that has just answered false
C2_Witness ==
    /\ UFElems = 0..4
    /\ uf_sets = {{0, 1, 2}, {3, 4}}
    /\ count = 2
    /\ uf_last.op = "connected"
    /\ uf_last.ret = FALSE
    /\ UnionFind_connected(parent, 0, 2).ret = TRUE
    /\ UnionFind_connected(parent, 0, 4).ret = FALSE

\* ---- C3 -----------------------------------------------------------------
\* C3: connected is an equivalence relation in every reachable state, the
\* calls being made one after the other, each on the parent links the
\* previous call left: connected(p,p) is true; connected(p,q) followed by
\* connected(q,p) gives the same answer; connected(p,q) and connected(q,r)
\* both true make the following connected(p,r) true.
C3_ConnectedEquivalence ==
    \A p, q, r \in UFElems :
        LET c1 == UnionFind_connected(parent, p, q)
            c2 == UnionFind_connected(c1.parent, q, p)
            c3 == UnionFind_connected(c1.parent, q, r)
            c4 == UnionFind_connected(c3.parent, p, r)
        IN  /\ UnionFind_connected(parent, p, p).ret = TRUE
            /\ c1.ret = c2.ret
            /\ (c1.ret /\ c3.ret) => c4.ret

\* a connected call has just run, and in the state it left another
\* connected call that answers true would again rewrite parent links
C3_Witness ==
    /\ uf_last.op = "connected"
    /\ uf_last.ret = TRUE
    /\ \E p, q \in UFElems :
          /\ p # q
          /\ UnionFind_connected(parent, p, q).ret = TRUE
          /\ UnionFind_connected(parent, p, q).parent # parent

\* ---- C4 -----------------------------------------------------------------
\* C4: find is idempotent in every state reached by unions and finds:
\* find(find(p)) = find(p), and a second find(p) returns the representative
\* the first one returned.
C4_FindIdempotent ==
    \A p \in UFElems :
        LET f1 == UnionFind_find(parent, p)
            f2 == UnionFind_find(f1.parent, f1.ret)
            f3 == UnionFind_find(f1.parent, p)
        IN  /\ f2.ret = f1.ret
            /\ f3.ret = f1.ret

\* a find has just returned, and some element is still two links away
\* from its root, so that a find on it walks and compresses a real path
C4_Witness ==
    /\ uf_last.op = "find"
    /\ \E p \in UFElems :
          /\ parent[p] # p
          /\ parent[parent[p]] # parent[p]
          /\ UnionFind_find(parent, p).ret # parent[p]

\* ---- C19 ----------------------------------------------------------------
\* C19: in every state reached from new(n) by union, find and connected
\* calls, the parent links lead from every element to a root in finitely
\* many steps (the only cycles are the self-loops of the roots), and count
\* is the number of roots.
C19_ForestAndCount ==
    /\ \A e \in UFElems : parent[e] \in UFElems
    /\ \A e \in UFElems :
          LET top == Climb(parent, e, Cardinality(UFElems))
          IN  parent[top] = top
    /\ count = Cardinality({r \in UFElems : parent[r] = r})

\* a find has just returned in a forest of two or more trees, one of which
\* has a node two links away from its root
C19_Witness ==
    /\ uf_last.op = "find"
    /\ count >= 2
    /\ count < Cardinality(UFElems)
    /\ \E e \in UFElems :
          /\ parent[e] # e
          /\ parent[parent[e]] # parent[e]

\* ---- C20 ----------------------------------------------------------------
\* C20: when union(p, q) merges two sets, the root of the set with fewer
\* elements becomes a child of the root of the set with more; with equal
\* numbers q's root becomes a child of p's root; afterwards size at the new
\* root is the number of elements of the merged set.
C20_UnionBySize ==
    (uf_last.op = "union" /\ uf_last.apart) =>
        LET child == IF uf_last.p_elems < uf_last.q_elems
                     THEN uf_last.p_root ELSE uf_last.q_root
            top == IF uf_last.p_elems < uf_last.q_elems
                   THEN uf_last.q_root ELSE uf_last.p_root
        IN  /\ parent[child] = top
            /\ parent[top] = top
            /\ size[top] = uf_last.p_elems + uf_last.q_elems
            /\ size[top] = Cardinality(SetOf(uf_sets, top))
            /\ child \in SetOf(uf_sets, top)

\* a union has just hung the root of p's smaller set under the root of q's
\* larger set, neither p nor q being a root
C20_Witness ==
    /\ uf_last.op = "union"
    /\ uf_last.apart
    /\ uf_last.p_elems = 2
    /\ uf_last.q_elems = 3
    /\ parent[uf_last.p_root] = uf_last.q_root
    /\ size[uf_last.q_root] = 5

\* ---- C21 ----------------------------------------------------------------
\* C21: after find(p) returns root r, every element that was on the parent
\* path from p to r has parent r; the parent of every element off that path
\* is unchanged, count and the size of every root are unchanged, and which
\* elements are connected is unchanged: every element keeps the root its
\* parent links lead to, and after the call the roots are still one per set
\* of the partition built from the unions.
C21_FindFrame ==
    LET before == [e \in UFElems |-> TopOf(parent, e)]
    IN  /\ \A p \in UFElems :
              LET f == UnionFind_find(parent, p)
                  path == PathFrom(parent, p)
                  after == [e \in UFElems |-> TopOf(f.parent, e)]
              IN  /\ f.ret \in path
                  /\ parent[f.ret] = f.ret
                  /\ DOMAIN f.parent = DOMAIN parent
                  /\ \A e \in path : f.parent[e] = f.ret
                  /\ \A e \in UFElems \ path : f.parent[e] = parent[e]
                  /\ \A e \in UFElems : after[e] = before[e]
        /\ uf_last.op = "find" =>
              /\ count = uf_last.count_before
              /\ size = uf_last.size_before
              /\ parent[uf_last.ret] = uf_last.ret
              /\ \A S \in uf_sets :
                    \E r \in S : \A e \in S : before[e] = r

\* a find has just relinked an element to its root in a tree of four
\* elements (the path holds three of them, one is off it) while another
\* tree is present
C21_Witness ==
    /\ uf_last.op = "find"
    /\ uf_last.relinked >= 1
    /\ count >= 2
    /\ Cardinality({e \in UFElems : TopOf(parent, e) = uf_last.ret}) = 4

\* ========================================================================
\* FenwickTree (rust/src/fenwick_tree.rs)
\* ========================================================================

\* An operation either returns a value or panics (an out-of-bounds index)
Ok(v) == [panic |-> FALSE, val |-> v]
Panic == [panic |-> TRUE]

Pow2(k) == 2 ^ k

\* x & y on words of WordBits bits, bit by bit
RECURSIVE BitAnd(_, _, _)
BitAnd(x, y, bits) ==
    IF bits = 0 THEN 0
    ELSE (IF x % 2 = 1 /\ y % 2 = 1 THEN 1 ELSE 0)
            + 2 * BitAnd(x \div 2, y \div 2, bits - 1)

\* x.wrapping_neg(): the two's complement of x
WrappingNeg(x) == (Pow2(WordBits) - x) % Pow2(WordBits)

\* idx & idx.wrapping_neg()
LowBit(idx) == BitAnd(idx, WrappingNeg(idx), WordBits)

\* FenwickTree::new(size): vec![0; size + 1], indexed 0..size
FenwickTree_new(n) == [i \in 0..n |-> 0]

\* FenwickTree::len
FenwickTree_len(tr) == Cardinality(DOMAIN tr) - 1

\* Mutant of from_vec's loop: the propagation is bounded by values.len()
\* instead of tree.len(), so the last slot never receives a child's sum
RECURSIVE FromVecLoop_ShortBound(_, _, _)
FromVecLoop_ShortBound(tr, values, i) ==
    IF i >= Len(values) THEN tr
    ELSE LET idx == i + 1
             t1 == [tr EXCEPT ![idx] = tr[idx] + values[i + 1]]
             parent_idx == idx + LowBit(idx)
             t2 == IF parent_idx < Len(values)
                   THEN [t1 EXCEPT ![parent_idx] = t1[parent_idx] + t1[idx]]
                   ELSE t1
         IN  FromVecLoop_ShortBound(t2, values, i + 1)

\* from_vec: the loop body for i, i+1, ..; values is a sequence, values[i+1]
\* is the source's values[i]
RECURSIVE FromVecLoop(_, _, _)
FromVecLoop(tr, values, i) ==
    IF i >= Len(values) THEN tr
    ELSE LET idx == i + 1
             t1 == [tr EXCEPT ![idx] = tr[idx] + values[i + 1]]
             parent_idx == idx + LowBit(idx)
             t2 == IF parent_idx < Cardinality(DOMAIN tr)
                   THEN [t1 EXCEPT ![parent_idx] = t1[parent_idx] + t1[idx]]
                   ELSE t1
         IN  FromVecLoop(t2, values, i + 1)

FenwickTree_from_vec(values) ==
    FromVecLoop([i \in 0..Len(values) |-> 0], values, 0)

\* add: the while loop, index already incremented
RECURSIVE AddLoop(_, _, _)
AddLoop(tr, index, delta) ==
    IF index < Cardinality(DOMAIN tr)
    THEN AddLoop([tr EXCEPT ![index] = tr[index] + delta],
                 index + LowBit(index), delta)
    ELSE tr

\* Mutant of add: "if" for "while", only the first slot is updated
FenwickTree_add_FirstSlot(tr, index, delta) ==
    IF index + 1 < Cardinality(DOMAIN tr)
    THEN [tr EXCEPT ![index + 1] = tr[index + 1] + delta]
    ELSE tr

\* add(&mut self, index, delta): the tree it leaves
FenwickTree_add(tr, index, delta) == AddLoop(tr, index + 1, delta)

\* query: the while loop; self.tree[index] panics out of bounds
RECURSIVE QueryLoop(_, _, _)
QueryLoop(tr, index, sum) ==
    IF index > 0
    THEN IF index \notin DOMAIN tr
         THEN Panic
         ELSE QueryLoop(tr, index - LowBit(index), sum + tr[index])
    ELSE Ok(sum)

\* query(&self, index)
FenwickTree_query(tr, index) == QueryLoop(tr, index + 1, 0)

\* Mutant of range_sum: query(start) subtracted instead of query(start - 1)
FenwickTree_range_sum_OffByOne(tr, start, end) ==
    IF start > end THEN Ok(0)
    ELSE IF start = 0 THEN FenwickTree_query(tr, end)
    ELSE LET qe == FenwickTree_query(tr, end)
             qs == FenwickTree_query(tr, start)
         IN  IF qe.panic \/ qs.panic THEN Panic ELSE Ok(qe.val - qs.val)

\* range_sum(&self, start, end)
FenwickTree_range_sum(tr, start, end) ==
    IF start > end THEN Ok(0)
    ELSE IF start = 0 THEN FenwickTree_query(tr, end)
    ELSE LET qe == FenwickTree_query(tr, end)
             qs == FenwickTree_query(tr, start - 1)
         IN  IF qe.panic \/ qs.panic THEN Panic ELSE Ok(qe.val - qs.val)

\* Observer: the logical array a[0..n), kept as a sequence (ft_a[i+1] is
\* a[i]), and its sums
FTSize == Len(ft_a)

RECURSIVE SumTo(_, _)
SumTo(a, k) == IF k = 0 THEN 0 ELSE SumTo(a, k - 1) + a[k]

\* sum of a[i] for start <= i <= end, term by term
RECURSIVE SumRange(_, _, _)
SumRange(a, start, end) ==
    IF start > end THEN 0 ELSE SumRange(a, start, end - 1) + a[end + 1]

Zeros(n) == [i \in 1..n |-> 0]

FTInit ==
    /\ \E n \in 0..FTMaxSize :
          \/ /\ ft_mode = "new"
             /\ tree = FenwickTree_new(n)
             /\ ft_a = Zeros(n)
          \/ \E values \in [1..n -> FTVals] :
                /\ ft_mode = "from_vec"
                /\ tree = FenwickTree_from_vec(values)
                /\ ft_a = values
    /\ ft_adds = 0
    /\ ft_fill = 0
    /\ ft_last = NoCall
    /\ UFIdle /\ STIdle /\ TreapIdle /\ KMPIdle /\ SeedIdle

\* add(index, delta), index in range.  ft_fill counts the adds while they
\* are add(0,_), add(1,_), ... in this order, and is -1 after any other add.
FTAdd(index, delta) ==
    LET filling == ft_mode = "new" /\ ft_fill = index
    IN  /\ filling \/ ft_adds < FTMaxAdds
        /\ tree' = FenwickTree_add(tree, index, delta)
        /\ ft_a' = [ft_a EXCEPT ![index + 1] = ft_a[index + 1] + delta]
        /\ ft_fill' = IF filling THEN ft_fill + 1 ELSE -1
        /\ ft_adds' = ft_adds + 1
        /\ ft_last' = [op |-> "add"]
        /\ UNCHANGED ft_mode
        /\ UNCHANGED <<uf_vars, st_vars, t_vars, kmp_vars, seed_vars>>

\* What the caller of add sees: add returns (), not a Result, and indexes
\* the vector only under the loop guard, so the call always returns
\* normally, with the tree the loop left
FenwickTree_add_call(tr, index, delta) ==
    Ok(FenwickTree_add(tr, index, delta))

\* add(index, delta) with index >= len(); the call records whether it
\* failed and the tree array from before it
FTAddOutOfRange(index, delta) ==
    LET r == FenwickTree_add_call(tree, index, delta)
    IN  /\ tree' = IF r.panic THEN tree ELSE r.val
        /\ ft_last' = [op |-> "add_out_of_range", failed |-> r.panic,
                       tree_before |-> tree]
        /\ UNCHANGED <<ft_a, ft_mode, ft_adds, ft_fill>>
        /\ UNCHANGED <<uf_vars, st_vars, t_vars, kmp_vars, seed_vars>>

\* query(index) with index >= len()
FTQueryOutOfRange(index) ==
    /\ ft_last' = [op |-> "query_out_of_range",
                   failed |-> FenwickTree_query(tree, index).panic,
                   tree_before |-> tree]
    /\ UNCHANGED <<tree, ft_a, ft_mode, ft_adds, ft_fill>>
    /\ UNCHANGED <<uf_vars, st_vars, t_vars, kmp_vars, seed_vars>>

FTQuery(index) ==
    /\ ft_last' = [op |-> "query",
                   ret |-> FenwickTree_query(tree, index)]
    /\ UNCHANGED <<tree, ft_a, ft_mode, ft_adds, ft_fill>>
    /\ UNCHANGED <<uf_vars, st_vars, t_vars, kmp_vars, seed_vars>>

FTRangeSum(start, end) ==
    /\ ft_last' = [op |-> "range_sum",
                   ret |-> FenwickTree_range_sum(tree, start, end)]
    /\ UNCHANGED <<tree, ft_a, ft_mode, ft_adds, ft_fill>>
    /\ UNCHANGED <<uf_vars, st_vars, t_vars, kmp_vars, seed_vars>>

FTNext ==
    \/ \E index \in 0..(FTSize - 1), delta \in FTVals : FTAdd(index, delta)
    \/ \E index \in 0..(FTSize - 1) : FTQuery(index)
    \/ \E start \in 0..(FTSize + 1), end \in 0..(FTSize - 1) :
          FTRangeSum(start, end)
    \/ \E index \in FTSize..(FTSize + 1), delta \in FTVals :
          FTAddOutOfRange(index, delta)
    \/ \E index \in FTSize..(FTSize + 1) : FTQueryOutOfRange(index)

SpecFT == FTInit /\ [][FTNext]_vars

\* ---- C5 -----------------------------------------------------------------
\* C5: new(n) followed by add(0, a[0]), add(1, a[1]), ..., add(n-1, a[n-1])
\* leaves the same tree array, slot by slot, as from_vec(a); hence every
\* query and range_sum returns the same on both.
C5_FromVecEqualsAdds ==
    (ft_mode = "new" /\ ft_fill = FTSize) =>
        LET built == FenwickTree_from_vec(ft_a)
        IN  /\ DOMAIN tree = DOMAIN built
            /\ \A slot \in DOMAIN tree : tree[slot] = built[slot]
            /\ \A i \in 0..(FTSize - 1) :
                  FenwickTree_query(tree, i) = FenwickTree_query(built, i)
            /\ \A start \in 0..(FTSize + 1), end \in 0..(FTSize - 1) :
                  FenwickTree_range_sum(tree, start, end)
                      = FenwickTree_range_sum(built, start, end)

\* a tree of four elements has been filled by four sequential adds
C5_Witness ==
    /\ ft_mode = "new"
    /\ ft_fill = FTSize
    /\ ft_a = <<2, -1, -1, 2>>
    /\ ft_last.op = "add"

\* ---- C6 -----------------------------------------------------------------
\* C6: in every state reached from new(size) or from_vec(values) by in-range
\* adds, query(i) returns the sum of the logical array a[0..=i], for every
\* i < size.
C6_QueryIsPrefixSum ==
    \A i \in 0..(FTSize - 1) :
        FenwickTree_query(tree, i) = Ok(SumTo(ft_a, i + 1))

\* a query has just returned a non-zero sum on a tree built by from_vec
\* and then changed by adds
C6_Witness ==
    /\ ft_mode = "from_vec"
    /\ FTSize >= 4
    /\ ft_adds = FTMaxAdds
    /\ ft_last.op = "query"
    /\ ~ft_last.ret.panic
    /\ ft_last.ret.val = SumTo(ft_a, FTSize)
    /\ ft_last.ret.val # 0

\* ---- C7 -----------------------------------------------------------------
\* C7: for every end < size and every start (0 and start >= size included)
\* range_sum(start, end) returns, without panicking, the sum of a[i] for
\* start <= i <= end; it is 0 when start > end, and range_sum(0, n-1) is the
\* sum of the whole array.
C7_RangeSum ==
    /\ \A start \in 0..(FTSize + 1), end \in 0..(FTSize - 1) :
          /\ FenwickTree_range_sum(tree, start, end)
                = Ok(SumRange(ft_a, start, end))
          /\ start > end => FenwickTree_range_sum(tree, start, end) = Ok(0)
    /\ FTSize > 0 =>
          FenwickTree_range_sum(tree, 0, FTSize - 1) = Ok(SumTo(ft_a, FTSize))

\* a range_sum over an inner range (start > 0) has just returned a sum
\* that differs from both prefix sums it is computed from
C7_Witness ==
    /\ FTSize >= 4
    /\ ft_adds > 0
    /\ ft_last.op = "range_sum"
    /\ ft_last.ret = Ok(SumRange(ft_a, 1, 2))
    /\ ft_last.ret.val # SumTo(ft_a, 3)
    /\ ft_last.ret.val # SumTo(ft_a, 1)
    /\ ft_last.ret.val # 0
    /\ FenwickTree_range_sum(tree, FTSize + 1, FTSize - 1) = Ok(0)

\* ---- C18 ----------------------------------------------------------------
\* C18: add(index, delta) and query(index) with index >= size fail at the
\* call, instead of succeeding or returning a value, and the failed call
\* leaves the tree array, hence every prefix sum, as it was.
C18_OutOfRangeCallFails ==
    ft_last.op \in {"add_out_of_range", "query_out_of_range"} =>
        /\ ft_last.failed
        /\ tree = ft_last.tree_before
        /\ \A i \in 0..(FTSize - 1) :
              FenwickTree_query(tree, i) = Ok(SumTo(ft_a, i + 1))

\* the two parts of C18 that the out-of-range calls do satisfy: query fails,
\* and neither call changes the tree array or a prefix sum
C18_QueryFailsAndTreeKept ==
    ft_last.op \in {"add_out_of_range", "query_out_of_range"} =>
        /\ ft_last.op = "query_out_of_range" => ft_last.failed
        /\ tree = ft_last.tree_before
        /\ \A i \in 0..(FTSize - 1) :
              FenwickTree_query(tree, i) = Ok(SumTo(ft_a, i + 1))

\* ========================================================================
\* SparseTable (rust/src/sparse_table.rs)
\* ========================================================================

\* Option<T>, or a panic (an out-of-bounds index, a usize underflow)
None == [kind |-> "None"]
Some(v) == [kind |-> "Some", val |-> v]
Panicked == [kind |-> "panic"]

\* std::cmp::min
Min(a, b) == IF a <= b THEN a ELSE b

\* 1 << k
Shl1(k) == Pow2(k)

\* A Vec of length n is a function on 0..n-1; arr is a sequence, arr[i+1]
\* is the source's arr[i]
ToVec(arr) == [i \in 0..(Len(arr) - 1) |-> arr[i + 1]]

VecLen(v) == Cardinality(DOMAIN v)

\* from_slice: the loop "for i in 2..=n { log[i] = log[i / 2] + 1 }"
RECURSIVE LogLoop(_, _, _)
LogLoop(lg, i, n) ==
    IF i > n THEN lg
    ELSE LogLoop([lg EXCEPT ![i] = lg[i \div 2] + 1], i + 1, n)

BuildLog(n) == LogLoop([i \in 0..n |-> 0], 2, n)

\* Mutant of the row construction: the second window starts at i + 1
\* instead of i + 2^(k-1)
BuildRow_Stride1(prev, k, n) ==
    LET len == n - Shl1(k) + 1
    IN  [i \in 0..(len - 1) |-> Min(prev[i], prev[i + 1])]

\* from_slice: row k from row k - 1
BuildRow(prev, k, n) ==
    LET len == n - Shl1(k) + 1
    IN  [i \in 0..(len - 1) |-> Min(prev[i], prev[i + Shl1(k - 1)])]

\* from_slice: the loop "for k in 1..max_k", table holding rows 0..k-1
RECURSIVE RowLoop(_, _, _, _)
RowLoop(tbl, k, max_k, n) ==
    IF k >= max_k THEN tbl
    ELSE RowLoop([j \in 0..k |->
                     IF j < k THEN tbl[j] ELSE BuildRow(tbl[k - 1], k, n)],
                 k + 1, max_k, n)

\* SparseTable::from_slice(arr)
SparseTable_from_slice(arr) ==
    LET n == Len(arr)
        lg == BuildLog(n)
        max_k == IF n = 0 THEN 0 ELSE lg[n] + 1
    IN  IF n = 0
        THEN [table |-> <<>>, log |-> lg]
        ELSE [table |-> RowLoop([j \in 0..0 |-> ToVec(arr)], 1, max_k, n),
              log   |-> lg]

\* query: the part after the checks; every index is tested as the
\* bounds-checked indexing of the source tests it
QueryWindows(tbl, lg, l, r) ==
    IF (r - l + 1) \notin DOMAIN lg THEN Panicked
    ELSE LET k == lg[r - l + 1]
         IN  IF k \notin DOMAIN tbl THEN Panicked
             ELSE IF l \notin DOMAIN tbl[k] THEN Panicked
             ELSE IF r + 1 - Shl1(k) \notin DOMAIN tbl[k] THEN Panicked
             ELSE Some(Min(tbl[k][l], tbl[k][r + 1 - Shl1(k)]))

\* Mutant of query: the bound on r is tested with > instead of >=
SparseTable_query_BoundOffByOne(tbl, lg, l, r) ==
    IF VecLen(tbl) = 0 THEN None
    ELSE LET n == VecLen(tbl[0])
         IN  IF l > r \/ r > n THEN None
             ELSE QueryWindows(tbl, lg, l, r)

\* query(&self, l, r)
SparseTable_query(tbl, lg, l, r) ==
    IF VecLen(tbl) = 0 THEN None
    ELSE LET n == VecLen(tbl[0])
         IN  IF l > r \/ r >= n THEN None
             ELSE QueryWindows(tbl, lg, l, r)

\* Observer: the minimum of arr[l..=r] by a linear scan
RECURSIVE NaiveMin(_, _, _)
NaiveMin(arr, l, r) ==
    IF l = r THEN arr[l + 1] ELSE Min(arr[l + 1], NaiveMin(arr, l + 1, r))

STLen == Len(st_arr)

STInit ==
    /\ \E n \in 0..STMaxLen :
          \E arr \in [1..n -> STVals] :
              LET st == SparseTable_from_slice(arr)
              IN  /\ table = st.table
                  /\ log = st.log
                  /\ st_arr = arr
    /\ st_last = NoCall
    /\ UFIdle /\ FTIdle /\ TreapIdle /\ KMPIdle /\ SeedIdle

STQuery(l, r) ==
    /\ st_last' = [op |-> "query", l |-> l, r |-> r,
                   ret |-> SparseTable_query(table, log, l, r)]
    /\ UNCHANGED <<table, log, st_arr>>
    /\ UNCHANGED <<uf_vars, ft_vars, t_vars, kmp_vars, seed_vars>>

STNext ==
    \E l, r \in 0..(STLen + 1) : STQuery(l, r)

SpecST == STInit /\ [][STNext]_vars

\* ---- C8 -----------------------------------------------------------------
\* C8: for every non-empty array and every l <= r < n, query(l, r) on the
\* table built from the array returns the minimum of arr[l..=r] found by a
\* linear scan, whatever the length of the range.
C8_QueryIsNaiveMin ==
    \A l, r \in 0..(STLen - 1) :
        l <= r =>
            SparseTable_query(table, log, l, r) = Some(NaiveMin(st_arr, l, r))

\* a query over a range of five elements (not a power of two) has just
\* returned a minimum that only the middle element holds
C8_Witness ==
    /\ STLen = 5
    /\ st_last.op = "query"
    /\ st_last.l = 0
    /\ st_last.r = 4
    /\ st_last.ret = Some(st_arr[3])
    /\ \A i \in {1, 2, 4, 5} : st_arr[i] > st_arr[3]

\* ---- C9 -----------------------------------------------------------------
\* C9: query(l, r) returns None, and never panics, exactly when the table
\* was built from an empty array, or l > r, or r >= n; for every other
\* (l, r) it returns a value.
C9_NoneExactlyWhenInvalid ==
    \A l, r \in 0..(STLen + 1) :
        LET ret == SparseTable_query(table, log, l, r)
            invalid == STLen = 0 \/ l > r \/ r >= STLen
        IN  /\ ret.kind # "panic"
            /\ (ret.kind = "None") = invalid
            /\ (ret.kind = "Some") = ~invalid

\* a query with r = n on a non-empty table has just returned None
C9_Witness ==
    /\ STLen >= 3
    /\ st_last.op = "query"
    /\ st_last.r = STLen
    /\ st_last.l < st_last.r
    /\ st_last.ret = None

\* ========================================================================
\* Treap (rust/src/treap.rs)
\* ========================================================================

\* Option<Box<Node>>: <<>> is None, <<n>> is Some(n), n a record of the
\* fields of Node
Nil == <<>>

\* Node::new(key); the priority is what splitmix64 returned for the seed
NodeNew(key, prio) ==
    [key |-> key, priority |-> prio, left |-> Nil, right |-> Nil,
     size |-> 1, count |-> 1]

\* .as_ref().map(|n| n.size).unwrap_or(0)
SizeOf(t) == IF t = Nil THEN 0 ELSE t[1].size

\* .as_ref().map(|n| n.priority).unwrap_or(0)
PriorityOf(t) == IF t = Nil THEN 0 ELSE t[1].priority

\* Mutant of recalc: the node counts for one, whatever its multiplicity
Recalc_IgnoresCount(n) ==
    [n EXCEPT !.size = SizeOf(n.left) + 1 + SizeOf(n.right)]

\* Node::recalc
Recalc(n) ==
    [n EXCEPT !.size = SizeOf(n.left) + n.count + SizeOf(n.right)]

\* Mutant of rotate_right: y is hung on the left of x instead of the right
RotateRight_WrongSide(y) ==
    LET x == y.left[1]
        y1 == Recalc([y EXCEPT !.left = x.right])
    IN  Recalc([x EXCEPT !.left = <<y1>>, !.right = Nil])

\* rotate_right(y); the caller has checked that y.left is Some
RotateRight(y) ==
    LET x == y.left[1]
        y1 == Recalc([y EXCEPT !.left = x.right])
    IN  Recalc([x EXCEPT !.right = <<y1>>])

\* rotate_left(x); the caller has checked that x.right is Some
RotateLeft(x) ==
    LET y == x.right[1]
        x1 == Recalc([x EXCEPT !.right = y.left])
    IN  Recalc([y EXCEPT !.left = <<x1>>])

\* insert_rec(node, key); prio is the priority Node::new draws if it is
\* called
RECURSIVE InsertRec(_, _, _)
InsertRec(node, key, prio) ==
    IF node = Nil THEN <<NodeNew(key, prio)>>
    ELSE LET boxed == node[1]
         IN  IF key = boxed.key
             THEN <<Recalc([boxed EXCEPT !.count = boxed.count + 1])>>
             ELSE IF key < boxed.key
             THEN LET b == [boxed EXCEPT
                               !.left = InsertRec(boxed.left, key, prio)]
                  IN  IF PriorityOf(b.left) > b.priority
                      THEN <<RotateRight(b)>>
                      ELSE <<Recalc(b)>>
             ELSE LET b == [boxed EXCEPT
                               !.right = InsertRec(boxed.right, key, prio)]
                  IN  IF PriorityOf(b.right) > b.priority
                      THEN <<RotateLeft(b)>>
                      ELSE <<Recalc(b)>>

\* Mutant of merge: when both subtrees are there the right one is dropped
Merge_DropsRight(a, b) ==
    IF a = Nil THEN b ELSE a

\* Mutant of merge: the root with the lower priority goes on top
RECURSIVE Merge_LowerOnTop(_, _)
Merge_LowerOnTop(a, b) ==
    IF a = Nil THEN b
    ELSE IF b = Nil THEN a
    ELSE LET la == a[1]
             rb == b[1]
         IN  IF la.priority < rb.priority
             THEN <<Recalc([la EXCEPT
                     !.right = Merge_LowerOnTop(la.right, b)])>>
             ELSE <<Recalc([rb EXCEPT
                     !.left = Merge_LowerOnTop(a, rb.left)])>>

\* merge(a, b)
RECURSIVE Merge(_, _)
Merge(a, b) ==
    IF a = Nil THEN b
    ELSE IF b = Nil THEN a
    ELSE LET la == a[1]
             rb == b[1]
         IN  IF la.priority > rb.priority
             THEN <<Recalc([la EXCEPT !.right = Merge(la.right, b)])>>
             ELSE <<Recalc([rb EXCEPT !.left = Merge(a, rb.left)])>>

\* Mutant of remove_rec: the node is spliced out whatever its count
RECURSIVE RemoveRec_AllOccurrences(_, _)
RemoveRec_AllOccurrences(node, key) ==
    IF node = Nil THEN Nil
    ELSE LET boxed == node[1]
         IN  IF key < boxed.key
             THEN <<Recalc([boxed EXCEPT
                     !.left = RemoveRec_AllOccurrences(boxed.left, key)])>>
             ELSE IF key > boxed.key
             THEN <<Recalc([boxed EXCEPT
                     !.right = RemoveRec_AllOccurrences(boxed.right, key)])>>
             ELSE Merge(boxed.left, boxed.right)

\* remove_rec(node, key)
RECURSIVE RemoveRec(_, _)
RemoveRec(node, key) ==
    IF node = Nil THEN Nil
    ELSE LET boxed == node[1]
         IN  IF key < boxed.key
             THEN <<Recalc([boxed EXCEPT
                               !.left = RemoveRec(boxed.left, key)])>>
             ELSE IF key > boxed.key
             THEN <<Recalc([boxed EXCEPT
                               !.right = RemoveRec(boxed.right, key)])>>
             ELSE IF boxed.count > 1
             THEN <<Recalc([boxed EXCEPT !.count = boxed.count - 1])>>
             ELSE Merge(boxed.left, boxed.right)

\* Treap::new
Treap_new == Nil

\* Treap::len
Treap_len(t) == SizeOf(t)

\* Treap::is_empty
Treap_is_empty(t) == t = Nil

\* Mutant of contains: the descent goes right for a smaller key and left
\* for a larger one
RECURSIVE Treap_contains_Swapped(_, _)
Treap_contains_Swapped(cur, key) ==
    IF cur = Nil THEN FALSE
    ELSE IF key < cur[1].key THEN Treap_contains_Swapped(cur[1].right, key)
    ELSE IF key > cur[1].key THEN Treap_contains_Swapped(cur[1].left, key)
    ELSE TRUE

\* Treap::contains(key): the while-let descent from the root
RECURSIVE Treap_contains(_, _)
Treap_contains(cur, key) ==
    IF cur = Nil THEN FALSE
    ELSE IF key < cur[1].key THEN Treap_contains(cur[1].left, key)
    ELSE IF key > cur[1].key THEN Treap_contains(cur[1].right, key)
    ELSE TRUE

\* "for _ in 0..n.count { out.push(n.key) }"
RECURSIVE PushCount(_, _)
PushCount(key, cnt) ==
    IF cnt = 0 THEN <<>> ELSE <<key>> \o PushCount(key, cnt - 1)

\* inorder_rec(node, out): what it appends to out
RECURSIVE InorderRec(_)
InorderRec(node) ==
    IF node = Nil THEN <<>>
    ELSE InorderRec(node[1].left)
            \o PushCount(node[1].key, node[1].count)
            \o InorderRec(node[1].right)

\* Treap::inorder_vec
Treap_inorder_vec(t) == InorderRec(t)

\* Treap::insert(key)
Treap_insert(t, key, prio) == InsertRec(t, key, prio)

\* Treap::remove(key)
Treap_remove(t, key) == RemoveRec(t, key)

TKeys == 1..TMaxKey

TPrios == 0..TMaxPrio

TreapInit ==
    /\ root = Treap_new
    /\ t_bag = [k \in TKeys |-> 0]
    /\ t_ins = 0
    /\ t_rem = 0
    /\ t_last = NoCall
    /\ UFIdle /\ FTIdle /\ STIdle /\ KMPIdle /\ SeedIdle

\* insert(key); a new node gets any priority.  The call records inorder()
\* and len() as they were before it.
Insert(key, prio) ==
    /\ t_ins < TMaxIns
    /\ root' = Treap_insert(root, key, prio)
    /\ t_bag' = [t_bag EXCEPT ![key] = t_bag[key] + 1]
    /\ t_ins' = t_ins + 1
    /\ t_last' = [op |-> "insert", key |-> key,
                   inorder_before |-> Treap_inorder_vec(root),
                   len_before |-> Treap_len(root)]
    /\ UNCHANGED t_rem
    /\ UNCHANGED <<uf_vars, ft_vars, st_vars, kmp_vars, seed_vars>>

\* remove(key); the observers lose an occurrence of key if they hold one.
\* A remove(key) that directly follows insert(key) keeps what the insert
\* recorded: inorder() and len() from before the insert.
Remove(key) ==
    /\ root' = Treap_remove(root, key)
    /\ t_bag' = [t_bag EXCEPT ![key] = IF t_bag[key] > 0
                                       THEN t_bag[key] - 1 ELSE 0]
    /\ t_rem' = IF t_bag[key] > 0 THEN t_rem + 1 ELSE t_rem
    /\ t_last' =
          IF t_last.op = "insert" /\ t_last.key = key
          THEN [op |-> "remove", key |-> key, found |-> t_bag[key] > 0,
                undoes_insert |-> TRUE,
                inorder_before |-> t_last.inorder_before,
                len_before |-> t_last.len_before]
          ELSE [op |-> "remove", key |-> key, found |-> t_bag[key] > 0,
                undoes_insert |-> FALSE]
    /\ UNCHANGED t_ins
    /\ UNCHANGED <<uf_vars, ft_vars, st_vars, kmp_vars, seed_vars>>

\* contains(&self, key), for the keys in use and a key below and a key
\* above them, which are never inserted
Contains(key) ==
    /\ t_last' = [op |-> "contains", key |-> key,
                   ret |-> Treap_contains(root, key)]
    /\ UNCHANGED <<root, t_bag, t_ins, t_rem>>
    /\ UNCHANGED <<uf_vars, ft_vars, st_vars, kmp_vars, seed_vars>>

TreapNext ==
    \/ \E key \in TKeys, prio \in TPrios : Insert(key, prio)
    \/ \E key \in TKeys : Remove(key)
    \/ \E key \in 0..(TMaxKey + 1) : Contains(key)

SpecTreap == TreapInit /\ [][TreapNext]_vars

\* ---- C10 ----------------------------------------------------------------
\* C10: after any sequence of insert and remove calls, whatever priorities
\* were drawn, len() is the number of insert calls minus the number of
\* remove calls that removed an occurrence; a remove of an absent key
\* removes nothing.
C10_LenCountsOccurrences ==
    Treap_len(root) = t_ins - t_rem

\* a remove of an absent key has just run on a treap that holds a key
\* twice and has lost an occurrence before
C10_Witness ==
    /\ t_last.op = "remove"
    /\ ~t_last.found
    /\ t_rem >= 1
    /\ t_ins = TMaxIns
    /\ \E k \in TKeys : t_bag[k] >= 2
    /\ Treap_len(root) = 3

\* Observer: the sorted listing of the reference multiset, key by key
RECURSIVE SortedListing(_, _)
SortedListing(bag, k) ==
    IF k > TMaxKey THEN <<>>
    ELSE [i \in 1..bag[k] |-> k] \o SortedListing(bag, k + 1)

\* ---- C11 ----------------------------------------------------------------
\* C11: after any sequence of insert and remove calls, whatever priorities
\* were drawn, inorder() is a non-decreasing sequence of keys.
C11_InorderNonDecreasing ==
    LET out == Treap_inorder_vec(root)
    IN  \A i \in 1..(Len(out) - 1) : out[i] <= out[i + 1]

\* a remove has just spliced a node out of a treap that still lists three
\* distinct keys, one of them twice
C11_Witness ==
    /\ t_last.op = "remove"
    /\ t_last.found
    /\ t_bag[t_last.key] = 0
    /\ Len(Treap_inorder_vec(root)) = 3
    /\ Cardinality({k \in TKeys : t_bag[k] > 0}) = 2
    /\ root # Nil
    /\ root[1].left # Nil
    /\ root[1].key > 1

\* ---- C12 ----------------------------------------------------------------
\* C12: inorder() is the sorted listing of the reference multiset, which
\* gains an occurrence of k on insert(k), loses one on remove(k) when it
\* holds k and is unchanged by remove(k) otherwise; every key is listed as
\* many times as its multiplicity.
C12_InorderIsSortedMultiset ==
    LET out == Treap_inorder_vec(root)
    IN  /\ out = SortedListing(t_bag, 1)
        /\ \A k \in TKeys :
              Cardinality({i \in 1..Len(out) : out[i] = k}) = t_bag[k]

\* a remove has just taken one of three occurrences of a key, another key
\* being listed too
C12_Witness ==
    /\ t_last.op = "remove"
    /\ t_last.found
    /\ t_bag[t_last.key] = 2
    /\ \E k \in TKeys : k # t_last.key /\ t_bag[k] = 1
    /\ Len(Treap_inorder_vec(root)) = 3

\* ---- C13 ----------------------------------------------------------------
\* C13: insert(k) directly followed by remove(k), k held before or not,
\* leaves inorder() and len() as they were before the insert.
C13_InsertRemoveRoundTrip ==
    (t_last.op = "remove" /\ t_last.undoes_insert) =>
        /\ t_last.found
        /\ Treap_inorder_vec(root) = t_last.inorder_before
        /\ Treap_len(root) = t_last.len_before

\* a remove has just undone the insert of a key that was not held before
\* and lies between two keys that are held
C13_Witness ==
    /\ t_last.op = "remove"
    /\ t_last.undoes_insert
    /\ t_bag[t_last.key] = 0
    /\ \E lo, hi \in TKeys :
          lo < t_last.key /\ t_last.key < hi /\ t_bag[lo] > 0 /\ t_bag[hi] > 0

\* ---- C14 ----------------------------------------------------------------
\* C14: contains(k) is true exactly when k has at least one occurrence: true
\* after a remove(k) that leaves occurrences, false after the remove of the
\* last one and for keys never inserted; a contains call leaves the treap
\* as it is.
C14_ContainsIffPresent ==
    /\ \A k \in TKeys : Treap_contains(root, k) = (t_bag[k] > 0)
    /\ Treap_contains(root, 0) = FALSE
    /\ Treap_contains(root, TMaxKey + 1) = FALSE
    /\ t_last.op = "contains" =>
          t_last.ret = (t_last.key \in TKeys /\ t_bag[t_last.key] > 0)

\* contains has just answered false for a key whose last occurrence was
\* removed, in a treap that holds other keys on both sides of it
C14_Witness ==
    /\ t_last.op = "contains"
    /\ t_last.ret = FALSE
    /\ t_last.key \in TKeys
    /\ t_rem >= 1
    /\ \E lo, hi \in TKeys :
          lo < t_last.key /\ t_last.key < hi /\ t_bag[lo] > 0 /\ t_bag[hi] > 0

\* Observer: every node of the subtree has a priority at least that of each
\* child it has
RECURSIVE HeapOrdered(_)
HeapOrdered(node) ==
    IF node = Nil THEN TRUE
    ELSE /\ node[1].left # Nil =>
                node[1].priority >= node[1].left[1].priority
         /\ node[1].right # Nil =>
                node[1].priority >= node[1].right[1].priority
         /\ HeapOrdered(node[1].left)
         /\ HeapOrdered(node[1].right)

\* ---- C22 ----------------------------------------------------------------
\* C22: in every state reached by insert and remove calls, whatever
\* priorities were drawn, equal ones included, every node's priority is
\* greater than or equal to the priority of each of its children: the
\* rotations of insert and the merge of remove have restored this when the
\* call returns.
C22_HeapProperty == HeapOrdered(root)

\* Observer: the node has a child of the same priority as itself
HasEqualChild(node) ==
    /\ node # Nil
    /\ \/ node[1].left # Nil /\ node[1].left[1].priority = node[1].priority
       \/ node[1].right # Nil /\ node[1].right[1].priority = node[1].priority

\* an insert has just rotated its new node up to the root, once to the left
\* and once to the right, over two nodes that are now its children, one of
\* which has a child of its own priority
C22_Witness ==
    /\ t_last.op = "insert"
    /\ t_bag[t_last.key] = 1
    /\ root # Nil
    /\ root[1].key = t_last.key
    /\ root[1].left # Nil
    /\ root[1].right # Nil
    /\ HasEqualChild(root[1].left) \/ HasEqualChild(root[1].right)

\* ========================================================================
\* KMP (rust/src/kmp.rs)
\* ========================================================================
\* A &str is modelled by its bytes (as_bytes, and len() is the byte length):
\* a sequence over KMPBytes.  Rust indexes from 0, a sequence from 1: v[i]
\* of the source is v[i + 1] here, and an index outside the vector panics.

\* Mutant of the fallback loop: an "if" in place of the "while"
FallBack_OneStep(c, p, pi, j) ==
    IF j > 0
    THEN IF j >= Len(p) THEN Panic
         ELSE IF c # p[j + 1]
         THEN IF j - 1 >= Len(pi) THEN Panic ELSE Ok(pi[j])
         ELSE Ok(j)
    ELSE Ok(j)

\* "while j > 0 && c != p[j] { j = pi[j - 1]; }" with c the byte s[i] of
\* prefix_function or t_bytes[i] of find_all; the value is the final j
RECURSIVE FallBack(_, _, _, _)
FallBack(c, p, pi, j) ==
    IF j > 0
    THEN IF j >= Len(p) THEN Panic
         ELSE IF c # p[j + 1]
         THEN IF j - 1 >= Len(pi) THEN Panic
              ELSE FallBack(c, p, pi, pi[j])
         ELSE Ok(j)
    ELSE Ok(j)

\* "for i in 1..n { ... pi[i] = j; }" of prefix_function, from i on
RECURSIVE PrefixLoop(_, _, _)
PrefixLoop(s, pi, i) ==
    IF i >= Len(s) THEN Ok(pi)
    ELSE LET fb == FallBack(s[i + 1], s, pi, pi[i])
         IN  IF fb.panic \/ fb.val >= Len(s) THEN Panic
             ELSE LET j == IF s[i + 1] = s[fb.val + 1]
                           THEN fb.val + 1 ELSE fb.val
                  IN  PrefixLoop(s, [pi EXCEPT ![i + 1] = j], i + 1)

\* prefix_function(pattern)
prefix_function(pattern) ==
    PrefixLoop(pattern, [k \in 1..Len(pattern) |-> 0], 1)

\* Mutant of the search loop: after a match j restarts from 0
RECURSIVE FindLoop_RestartAfterMatch(_, _, _, _, _, _)
FindLoop_RestartAfterMatch(t_bytes, p_bytes, pi, i, j_mut, res) ==
    IF i >= Len(t_bytes) THEN Ok(res)
    ELSE LET fb == FallBack(t_bytes[i + 1], p_bytes, pi, j_mut)
         IN  IF fb.panic \/ fb.val >= Len(p_bytes) THEN Panic
             ELSE LET j == IF t_bytes[i + 1] = p_bytes[fb.val + 1]
                           THEN fb.val + 1 ELSE fb.val
                  IN  IF j = Len(p_bytes)
                      THEN IF i + 1 < Len(p_bytes) THEN Panic
                           ELSE FindLoop_RestartAfterMatch(t_bytes, p_bytes,
                                   pi, i + 1, 0,
                                   Append(res, i + 1 - Len(p_bytes)))
                      ELSE FindLoop_RestartAfterMatch(t_bytes, p_bytes, pi,
                                   i + 1, j, res)

\* "for i in 0..n { ... }" of find_all, from i on with the current j and res;
\* i + 1 - m is computed in usize and panics below zero
RECURSIVE FindLoop(_, _, _, _, _, _)
FindLoop(t_bytes, p_bytes, pi, i, j_mut, res) ==
    IF i >= Len(t_bytes) THEN Ok(res)
    ELSE LET fb == FallBack(t_bytes[i + 1], p_bytes, pi, j_mut)
         IN  IF fb.panic \/ fb.val >= Len(p_bytes) THEN Panic
             ELSE LET j == IF t_bytes[i + 1] = p_bytes[fb.val + 1]
                           THEN fb.val + 1 ELSE fb.val
                  IN  IF j = Len(p_bytes)
                      THEN IF i + 1 < Len(p_bytes) \/ j - 1 >= Len(pi)
                           THEN Panic
                           ELSE FindLoop(t_bytes, p_bytes, pi, i + 1, pi[j],
                                         Append(res, i + 1 - Len(p_bytes)))
                      ELSE FindLoop(t_bytes, p_bytes, pi, i + 1, j, res)

\* Mutant of find_all: the early return only looks at m > n
find_all_NoEmptyGuard(text, pattern) ==
    IF Len(pattern) > Len(text) THEN Ok(<<>>)
    ELSE LET pi == prefix_function(pattern)
         IN  IF pi.panic THEN Panic
             ELSE FindLoop(text, pattern, pi.val, 0, 0, <<>>)

\* find_all(text, pattern)
find_all(text, pattern) ==
    IF Len(pattern) = 0 \/ Len(pattern) > Len(text) THEN Ok(<<>>)
    ELSE LET pi == prefix_function(pattern)
         IN  IF pi.panic THEN Panic
             ELSE FindLoop(text, pattern, pi.val, 0, 0, <<>>)

\* the byte strings of length at most n
Strings(n) == UNION {[1..k -> KMPBytes] : k \in 0..n}

KMPInit ==
    /\ kmp_text \in Strings(KMPMaxText)
    /\ kmp_pattern \in Strings(KMPMaxPattern)
    /\ kmp_last = NoCall
    /\ UFIdle /\ FTIdle /\ STIdle /\ TreapIdle /\ SeedIdle

PrefixFunction ==
    /\ kmp_last' = [op |-> "prefix_function",
                    ret |-> prefix_function(kmp_pattern)]
    /\ UNCHANGED <<kmp_text, kmp_pattern>>
    /\ UNCHANGED <<uf_vars, ft_vars, st_vars, t_vars, seed_vars>>

FindAll ==
    /\ kmp_last' = [op |-> "find_all",
                    ret |-> find_all(kmp_text, kmp_pattern)]
    /\ UNCHANGED <<kmp_text, kmp_pattern>>
    /\ UNCHANGED <<uf_vars, ft_vars, st_vars, t_vars, seed_vars>>

KMPNext ==
    \/ PrefixFunction
    \/ FindAll

SpecKMP == KMPInit /\ [][KMPNext]_vars

\* Observers: the offsets at which pattern occurs in text, and whether a
\* prefix of length k of s[0..=i] is also a suffix of it
Occurrences(text, pattern) ==
    {i \in 0..(Len(text) - Len(pattern)) :
        SubSeq(text, i + 1, i + Len(pattern)) = pattern}

IsBorder(s, i, k) ==
    SubSeq(s, 1, k) = SubSeq(s, i + 2 - k, i + 1)

LongestBorder(s, i) ==
    CHOOSE k \in 0..i :
        /\ IsBorder(s, i, k)
        /\ \A k2 \in 0..i : IsBorder(s, i, k2) => k2 <= k

\* ---- C15 ----------------------------------------------------------------
\* C15: for a non-empty pattern find_all returns, in increasing order and
\* without duplicates, exactly the offsets i at which
\* text[i..i+len(pattern)] equals pattern, overlapping ones included.
C15_FindAllIsAllOccurrences ==
    (kmp_last.op = "find_all" /\ Len(kmp_pattern) > 0) =>
        /\ ~kmp_last.ret.panic
        /\ LET res == kmp_last.ret.val
           IN  /\ \A a \in 1..(Len(res) - 1) : res[a] < res[a + 1]
               /\ {res[a] : a \in 1..Len(res)}
                     = Occurrences(kmp_text, kmp_pattern)

\* find_all has returned three or more offsets of which two overlap
C15_Witness ==
    /\ kmp_last.op = "find_all"
    /\ Len(kmp_pattern) >= 2
    /\ ~kmp_last.ret.panic
    /\ Len(kmp_last.ret.val) >= 3
    /\ \E a \in 1..(Len(kmp_last.ret.val) - 1) :
          kmp_last.ret.val[a + 1] - kmp_last.ret.val[a] < Len(kmp_pattern)
    /\ \E a \in 1..(Len(kmp_last.ret.val) - 1) :
          kmp_last.ret.val[a + 1] - kmp_last.ret.val[a] > 1

\* ---- C16 ----------------------------------------------------------------
\* C16: prefix_function(pattern) returns pi with one entry per byte of the
\* pattern, pi[0] = 0, and pi[i] the length of the longest proper prefix of
\* pattern[0..=i] that is also a suffix of it; for "ababcabab" it is
\* [0,0,1,2,0,1,2,3,4].
C16_PrefixFunctionIsLongestBorder ==
    /\ kmp_last.op = "prefix_function" =>
          /\ ~kmp_last.ret.panic
          /\ Len(kmp_last.ret.val) = Len(kmp_pattern)
          /\ Len(kmp_pattern) > 0 => kmp_last.ret.val[1] = 0
          /\ \A i \in 0..(Len(kmp_pattern) - 1) :
                kmp_last.ret.val[i + 1] = LongestBorder(kmp_pattern, i)
    /\ prefix_function(<<97, 98, 97, 98, 99, 97, 98, 97, 98>>)
          = Ok(<<0, 0, 1, 2, 0, 1, 2, 3, 4>>)

\* prefix_function has run on a pattern where the fallback loop iterates
\* twice for the last byte ("aaab")
C16_Witness ==
    /\ kmp_last.op = "prefix_function"
    /\ kmp_pattern = <<97, 97, 97, 98>>
    /\ kmp_last.ret = Ok(<<0, 1, 2, 0>>)

\* ---- C17 ----------------------------------------------------------------
\* C17: find_all returns the empty list, and no error, whenever the pattern
\* is empty or longer than the text, for every text, the empty one included.
C17_FindAllEmptyResult ==
    (/\ kmp_last.op = "find_all"
     /\ \/ Len(kmp_pattern) = 0
        \/ Len(kmp_pattern) > Len(kmp_text)) =>
        kmp_last.ret = Ok(<<>>)

\* find_all has run with an empty pattern on a non-empty text
C17_Witness ==
    /\ kmp_last.op = "find_all"
    /\ kmp_pattern = <<>>
    /\ Len(kmp_text) > 0
    /\ kmp_last.ret = Ok(<<>>)

\* ========================================================================
\* Treap priority source (rust/src/treap.rs:4-13, 26-37)
\* ========================================================================
\* Node::new is two steps for a thread: the fetch_add on the shared static,
\* one atomic read-modify-write whatever its memory ordering, and then
\* splitmix64 on the thread's local s.  The mixing of splitmix64 (shifts,
\* xors and multiplications) is a function of the local s alone and is left
\* out; the priority is not represented.  Values are the low SeedBits bits
\* of the 64-bit ones: two values that differ there differ.

SeedModulus == Pow2(SeedBits)

\* 0x9E3779B97F4A7C15, low bits
SeedGamma == SeedLowByte % SeedModulus

\* Mutant of fetch_add: a load, the static is not advanced
fetch_add_LoadOnly(cur, val) ==
    [ret |-> cur, new |-> cur]

\* AtomicU64::fetch_add(val, Relaxed): returns the previous value and stores
\* the wrapping sum, atomically
fetch_add(cur, val) ==
    [ret |-> cur, new |-> (cur + val) % SeedModulus]

\* "*x = x.wrapping_add(0x9E3779B97F4A7C15)" of splitmix64
splitmix64_advance(x) == (x + SeedGamma) % SeedModulus

SeedInit ==
    /\ seed = SeedGamma
    /\ seed_pc = [t \in 1..SeedThreads |-> "start"]
    /\ seed_s = [t \in 1..SeedThreads |-> 0]
    /\ seed_got = <<>>
    /\ UFIdle /\ FTIdle /\ STIdle /\ TreapIdle /\ KMPIdle

\* thread t, in Node::new: "let mut s = SPLITMIX64_SEED.fetch_add(..)"
SeedFetchAdd(t) ==
    LET r == fetch_add(seed, SeedGamma)
    IN  /\ seed_pc[t] = "start"
        /\ Len(seed_got) < SeedMaxCreations
        /\ seed' = r.new
        /\ seed_s' = [seed_s EXCEPT ![t] = r.ret]
        /\ seed_pc' = [seed_pc EXCEPT ![t] = "mix"]
        /\ seed_got' = Append(seed_got, [thread |-> t, val |-> r.ret])
        /\ UNCHANGED <<uf_vars, ft_vars, st_vars, t_vars, kmp_vars>>

\* thread t, in Node::new: "let prio = splitmix64(&mut s)" and the return
SeedMix(t) ==
    /\ seed_pc[t] = "mix"
    /\ seed_s' = [seed_s EXCEPT ![t] = splitmix64_advance(seed_s[t])]
    /\ seed_pc' = [seed_pc EXCEPT ![t] = "start"]
    /\ UNCHANGED <<seed, seed_got>>
    /\ UNCHANGED <<uf_vars, ft_vars, st_vars, t_vars, kmp_vars>>

SeedNext ==
    \/ \E t \in 1..SeedThreads : SeedFetchAdd(t)
    \/ \E t \in 1..SeedThreads : SeedMix(t)

SpecSeed == SeedInit /\ [][SeedNext]_vars

\* ---- C23 ----------------------------------------------------------------
\* C23: when several threads create nodes concurrently, every creation
\* advances the shared seed atomically: after k creations the seed is its
\* initial value plus k increments, modulo the word; no two creations got
\* the same seed value; and no creation blocks: a thread at either step of
\* Node::new can take it whatever the other threads are doing.
C23_SeedAdvancesAtomically ==
    /\ seed = (SeedGamma + Len(seed_got) * SeedGamma) % SeedModulus
    /\ \A i, j \in 1..Len(seed_got) :
          i # j => seed_got[i].val # seed_got[j].val
    /\ \A i \in 1..Len(seed_got) :
          seed_got[i].val = (SeedGamma + (i - 1) * SeedGamma) % SeedModulus
    /\ \A t \in 1..SeedThreads :
          /\ (seed_pc[t] = "start" /\ Len(seed_got) < SeedMaxCreations)
                => ENABLED SeedFetchAdd(t)
          /\ seed_pc[t] = "mix" => ENABLED SeedMix(t)

\* every thread is between its fetch_add and its return at the same time,
\* after four or more creations in which the threads took turns
C23_Witness ==
    /\ Len(seed_got) >= 4
    /\ \A t \in 1..SeedThreads : seed_pc[t] = "mix"
    /\ \A t \in 1..SeedThreads :
          \E i \in 1..Len(seed_got) : seed_got[i].thread = t
    /\ seed_got[1].thread = seed_got[Len(seed_got)].thread

====
